---- MODULE Spec2Model ----
(***************************************************************************)
(* Model of tsri, a statically checked interface to memory-mapped          *)
(* hardware registers (src/include/tsri).                                  *)
(*                                                                         *)
(* A register value (register_value_t, uint32_t) is modelled as the set    *)
(* of the positions of its 1-bits, a subset of 0..31: OR is union, AND is  *)
(* intersection, ~ is the complement in 0..31 and a shift moves every      *)
(* position and drops those that leave 0..31, which is exactly the         *)
(* truncation of 32-bit unsigned arithmetic.  Word(n) is the word of the   *)
(* number n.                                                               *)
(*                                                                         *)
(* Template constraints (requires-clauses) are evaluated by the model as   *)
(* predicates: a call that violates its constraint is recorded as          *)
(* rejected and puts nothing on the bus.                                   *)
(***************************************************************************)
EXTENDS Integers, Sequences, FiniteSets, TLC

\* ------------------------------------------------------------------ bounds

\* Largest number of bit positions, fields or values named in one call.
MaxArgs == 2

\* ------------------------------------------------------------------ words

num_bits_in_register == 32

BitIndex == 0 .. (num_bits_in_register - 1)

RECURSIVE Pow2(_)
Pow2(n) == IF n = 0 THEN 1 ELSE 2 * Pow2(n - 1)

\* The 32-bit word of the number n (n < 2^31).
Word(n) == { b \in 0 .. (num_bits_in_register - 2) : (n \div Pow2(b)) % 2 = 1 }

AllOnes == BitIndex

\* 0U and 1U
Zero == Word(0)

One == Word(1)

Not(x) == BitIndex \ x

And(x, y) == x \cap y

Or(x, y) == x \cup y

Xor(x, y) == (x \ y) \cup (y \ x)

Shl(x, n) == { b + n : b \in x } \cap BitIndex

Shr(x, n) == { b - n : b \in x } \cap BitIndex

\* ------------------------------------------------------------ field types

FieldTypes == { "read_only", "write_only", "read_write", "self_clearing", "write_clear" }

is_readable(t) == t \in { "read_only", "read_write", "self_clearing", "write_clear" }

is_settable(t) == t \in { "write_only", "read_write", "self_clearing", "write_clear" }

is_clearable(t) == t \in { "read_write", "write_clear" }

is_bit_clearable(t) == t = "read_write"

is_bit_togglable(t) == t = "read_write"

is_write_clear(t) == t = "write_clear"

is_write_only(t) == t = "write_only"

\* ------------------------------------------------------------------ fields

\* field<StartBit, LengthInBits, TypeOfField, FieldValueOnReset>
Field(s, l, t, r) == [ start |-> s, len |-> l, type |-> t, reset |-> r ]

\* Mutant: the two shifts are applied in the opposite order.
bitmask_shifts_swapped(f) == Shr(Shl(AllOnes, f.start), num_bits_in_register - f.len)

bitmask(f) == Shl(Shr(AllOnes, num_bits_in_register - f.len), f.start)

\* Mutant: the shifted value is not masked by the field's bitmask.
get_register_value_from_field_value_unmasked(f, v) == Shl(v, f.start)

\* Mutant: the value is shifted by the length of the field.
get_register_value_from_field_value_shifted_by_length(f, v) ==
    And(Shl(v, f.len), bitmask(f))

get_register_value_from_field_value(f, v) == And(Shl(v, f.start), bitmask(f))

\* Mutant: the masked bits are not shifted down to position 0.
get_field_value_from_register_value_unshifted(f, v) == And(v, bitmask(f))

get_field_value_from_register_value(f, v) == Shr(And(v, bitmask(f)), f.start)

\* Mutant: the variant without bitmask applies the bitmask after all.
get_field_value_from_register_value_no_bitmask_masked(f, v) ==
    Shr(And(v, bitmask(f)), f.start)

get_field_value_from_register_value_no_bitmask(f, v) == Shr(v, f.start)

\* Mutant: every field clears by writing 0.
clear_value_zero(f) == Zero

clear_value(f) == IF is_write_clear(f.type) THEN One ELSE Zero

is_bit_position_in_field(f, p) == p >= f.start /\ p < (f.len + f.start)

\* ((1U << bit_positions) | ...)
RECURSIVE get_bit_positions_bitmask(_)
get_bit_positions_bitmask(ps) ==
    IF Len(ps) = 1 THEN Shl(One, ps[1])
    ELSE Or(Shl(One, ps[1]), get_bit_positions_bitmask(Tail(ps)))

\* (Fields::bitmask | ...)
RECURSIVE fields_bitmask(_)
fields_bitmask(fs) ==
    IF Len(fs) = 1 THEN bitmask(fs[1])
    ELSE Or(bitmask(fs[1]), fields_bitmask(Tail(fs)))

\* (Fields::get_register_value_from_field_value(values) | ...)
RECURSIVE field_values(_, _)
field_values(fs, vs) ==
    IF Len(fs) = 1 THEN get_register_value_from_field_value(fs[1], vs[1])
    ELSE Or(get_register_value_from_field_value(fs[1], vs[1]),
            field_values(Tail(fs), Tail(vs)))

\* (Fields::get_register_value_from_field_value(Fields::clear_value) | ...)
RECURSIVE fields_clear_value(_)
fields_clear_value(fs) ==
    IF Len(fs) = 1 THEN get_register_value_from_field_value(fs[1], clear_value(fs[1]))
    ELSE Or(get_register_value_from_field_value(fs[1], clear_value(fs[1])),
            fields_clear_value(Tail(fs)))

\* bit::is_bit_position_container_in_field<Field>: the bit belongs to the
\* field that is being constructed from it.
is_bit_position_container_in_field(f, owner) == owner = f

\* ((1U << bit_positions) | ...) << StartBit, the positions being relative
\* to the start bit of the field.
get_bitmask_from_bit_positions(f, ps) == Shl(get_bit_positions_bitmask(ps), f.start)

\* ------------------------------------------------------------- uniqueness

\* are_types_unique_v<T, Ts...> and are_values_unique<V, Vs...>: the head
\* differs from every later element, and the tail is unique.
RECURSIVE are_types_unique_v(_)
are_types_unique_v(ts) ==
    IF Len(ts) = 1 THEN TRUE
    ELSE /\ \A i \in 2 .. Len(ts) : ts[1] # ts[i]
         /\ are_types_unique_v(Tail(ts))

\* Mutant: the head is not compared with the later elements.
RECURSIVE are_values_unique_head_unchecked(_)
are_values_unique_head_unchecked(vs) ==
    IF Len(vs) = 1 THEN TRUE
    ELSE are_values_unique_head_unchecked(Tail(vs))

RECURSIVE are_values_unique(_)
are_values_unique(vs) ==
    IF Len(vs) = 1 THEN TRUE
    ELSE /\ \A i \in 2 .. Len(vs) : vs[1] # vs[i]
         /\ are_values_unique(Tail(vs))

is_type_in_list_v(t, ts) == \E i \in 1 .. Len(ts) : t = ts[i]

\* --------------------------------------------------------------- registers

\* register_read_write / register_write_only / register_read_only
\* <PeripheralBaseAddress, PeripheralBaseAddressOffset, ValueOnReset,
\*  SupportsAtomicBitOperations, RegisterFields...>; optimize_get_fields is
\* FALSE when the build defines TSRI_OPTION_NO_OPTIMIZE_GET_FIELDS.
Register(k, b, o, v, a, fs, opt) ==
    [ kind |-> k, base |-> b, offset |-> o, reset |-> v, atomic |-> a,
      fields |-> fs, optimize_get_fields |-> opt ]

atomic_xor_offset == 4096

atomic_set_offset == 8192

atomic_clear_offset == 12288

register_address(r) == r.base + r.offset

register_address_atomic_xor(r) == register_address(r) + atomic_xor_offset

register_address_atomic_set(r) == register_address(r) + atomic_set_offset

register_address_atomic_clear(r) == register_address(r) + atomic_clear_offset

\* Mutant: membership of the register is not checked.
are_fields_in_register_unchecked(r, fs) == TRUE

are_fields_in_register(r, fs) ==
    \A i \in 1 .. Len(fs) : is_type_in_list_v(fs[i], r.fields)

are_fields_readable(fs) == \A i \in 1 .. Len(fs) : is_readable(fs[i].type)

are_fields_settable(fs) == \A i \in 1 .. Len(fs) : is_settable(fs[i].type)

are_fields_clearable(fs) == \A i \in 1 .. Len(fs) : is_clearable(fs[i].type)

is_bit_position_in_any_readable_field(r, p) ==
    \E i \in 1 .. Len(r.fields) :
        is_bit_position_in_field(r.fields[i], p) /\ is_readable(r.fields[i].type)

is_bit_position_in_any_write_only_field(r, p) ==
    \E i \in 1 .. Len(r.fields) :
        is_bit_position_in_field(r.fields[i], p) /\ is_write_only(r.fields[i].type)

is_bit_position_in_any_settable_field(r, p) ==
    \E i \in 1 .. Len(r.fields) :
        is_bit_position_in_field(r.fields[i], p) /\ is_settable(r.fields[i].type)

is_bit_position_in_any_bit_clearable_field(r, p) ==
    \E i \in 1 .. Len(r.fields) :
        is_bit_position_in_field(r.fields[i], p) /\ is_bit_clearable(r.fields[i].type)

is_bit_position_in_any_bit_togglable_field(r, p) ==
    \E i \in 1 .. Len(r.fields) :
        is_bit_position_in_field(r.fields[i], p) /\ is_bit_togglable(r.fields[i].type)

\* --------------------------------------------------------------------- bus

\* One bus transaction: a volatile load or store of the 32-bit word at addr.
Load(a, v) == [ kind |-> "load", addr |-> a, val |-> v ]

Store(a, v) == [ kind |-> "store", addr |-> a, val |-> v ]

\* The register after one transaction.  A store to the plain address
\* replaces the word; on a register with the atomic aliases a store to the
\* XOR, SET or CLEAR alias applies the stored mask to the word.
HwAccess(r, m, tx) ==
    IF tx.kind = "load" THEN m
    ELSE IF tx.addr = register_address(r) THEN tx.val
    ELSE IF r.atomic /\ tx.addr = register_address_atomic_xor(r) THEN Xor(m, tx.val)
    ELSE IF r.atomic /\ tx.addr = register_address_atomic_set(r) THEN Or(m, tx.val)
    ELSE IF r.atomic /\ tx.addr = register_address_atomic_clear(r) THEN And(m, Not(tx.val))
    ELSE m

RECURSIVE HwRun(_, _, _)
HwRun(r, m, txs) ==
    IF txs = << >> THEN m ELSE HwRun(r, HwAccess(r, m, Head(txs)), Tail(txs))

\* ------------------------------------------------- register_read_write

\* The transactions of each operation, m being the word the register holds
\* when the operation loads it.
\* Mutant: the SET store goes to the CLEAR alias.
set_bits_impl_wrong_alias(r, m, ps) ==
    LET mask == get_bit_positions_bitmask(ps) IN
    IF r.atomic
    THEN << Store(register_address_atomic_clear(r), mask) >>
    ELSE << Load(register_address(r), m),
            Store(register_address(r), Or(mask, m)) >>

\* Mutant: the SET alias is not used; the bits are always set by a
\* read-modify-write at the plain address.
set_bits_impl_read_modify_write(r, m, ps) ==
    LET mask == get_bit_positions_bitmask(ps) IN
    << Load(register_address(r), m),
       Store(register_address(r), Or(mask, m)) >>

set_bits_impl(r, m, ps) ==
    LET mask == get_bit_positions_bitmask(ps) IN
    IF r.atomic
    THEN << Store(register_address_atomic_set(r), mask) >>
    ELSE << Load(register_address(r), m),
            Store(register_address(r), Or(mask, m)) >>

\* Mutant: the complement of the mask is stored to the CLEAR alias, as it
\* is AND-ed in on the read-modify-write path.
clear_bits_impl_alias_complement(r, m, ps) ==
    LET mask == get_bit_positions_bitmask(ps) IN
    IF r.atomic
    THEN << Store(register_address_atomic_clear(r), Not(mask)) >>
    ELSE << Load(register_address(r), m),
            Store(register_address(r), And(Not(mask), m)) >>

\* Mutant: without atomic support the complement of the mask is stored
\* and the register is not read.
clear_bits_impl_forgets_read(r, m, ps) ==
    LET mask == get_bit_positions_bitmask(ps) IN
    IF r.atomic
    THEN << Store(register_address_atomic_clear(r), mask) >>
    ELSE << Store(register_address(r), Not(mask)) >>

clear_bits_impl(r, m, ps) ==
    LET mask == get_bit_positions_bitmask(ps) IN
    IF r.atomic
    THEN << Store(register_address_atomic_clear(r), mask) >>
    ELSE << Load(register_address(r), m),
            Store(register_address(r), And(Not(mask), m)) >>

\* Mutant: the read-modify-write path stores the mask without the read word.
toggle_bits_impl_drops_read(r, m, ps) ==
    LET mask == get_bit_positions_bitmask(ps) IN
    IF r.atomic
    THEN << Store(register_address_atomic_xor(r), mask) >>
    ELSE << Load(register_address(r), m),
            Store(register_address(r), mask) >>

\* Mutant: the bits are OR-ed in instead of XOR-ed.
toggle_bits_impl_sets(r, m, ps) ==
    LET mask == get_bit_positions_bitmask(ps) IN
    IF r.atomic
    THEN << Store(register_address_atomic_set(r), mask) >>
    ELSE << Load(register_address(r), m),
            Store(register_address(r), Or(mask, m)) >>

toggle_bits_impl(r, m, ps) ==
    LET mask == get_bit_positions_bitmask(ps) IN
    IF r.atomic
    THEN << Store(register_address_atomic_xor(r), mask) >>
    ELSE << Load(register_address(r), m),
            Store(register_address(r), Xor(mask, m)) >>

set_bits_requires(r, ps) ==
    /\ \A i \in 1 .. Len(ps) : is_bit_position_in_any_settable_field(r, ps[i])
    /\ are_values_unique(ps)

clear_bits_requires(r, ps) ==
    /\ \A i \in 1 .. Len(ps) : is_bit_position_in_any_bit_clearable_field(r, ps[i])
    /\ are_values_unique(ps)

toggle_bits_requires(r, ps) ==
    /\ \A i \in 1 .. Len(ps) : is_bit_position_in_any_bit_togglable_field(r, ps[i])
    /\ are_values_unique(ps)

set_fields_requires(r, fs) ==
    /\ are_types_unique_v(fs)
    /\ are_fields_in_register(r, fs)
    /\ are_fields_settable(fs)

\* Mutant: on a register with atomic support the values go to the SET alias.
set_fields_uses_set_alias(r, m, fs, vs) ==
    IF r.atomic
    THEN << Store(register_address_atomic_set(r), field_values(fs, vs)) >>
    ELSE << Load(register_address(r), m),
            Store(register_address(r),
                  Or(field_values(fs, vs), And(Not(fields_bitmask(fs)), m))) >>

set_fields(r, m, fs, vs) ==
    LET cleared_register_value == And(Not(fields_bitmask(fs)), m) IN
    << Load(register_address(r), m),
       Store(register_address(r), Or(field_values(fs, vs), cleared_register_value)) >>

clear_fields_requires(r, fs) ==
    /\ are_types_unique_v(fs)
    /\ are_fields_in_register(r, fs)
    /\ are_fields_clearable(fs)

\* Mutant: the atomic CLEAR alias is used whenever it exists, also for
\* write_clear fields.
clear_fields_always_atomic(r, m, fs) ==
    IF r.atomic
    THEN << Store(register_address_atomic_clear(r), fields_bitmask(fs)) >>
    ELSE << Load(register_address(r), m),
            Store(register_address(r),
                  Or(And(Not(fields_bitmask(fs)), m), fields_clear_value(fs))) >>

clear_fields(r, m, fs) ==
    IF r.atomic /\ ~ \E i \in 1 .. Len(fs) : is_write_clear(fs[i].type)
    THEN << Store(register_address_atomic_clear(r), fields_bitmask(fs)) >>
    ELSE << Load(register_address(r), m),
            Store(register_address(r),
                  Or(And(Not(fields_bitmask(fs)), m), fields_clear_value(fs))) >>

\* -------------------------------------------------- register_write_base

unsafe_set(r, v) == << Store(register_address(r), v) >>

\* Mutant: a register none of whose fields can be written is left alone.
reset_only_settable(r) ==
    IF \E i \in 1 .. Len(r.fields) : is_settable(r.fields[i].type)
    THEN << Store(register_address(r), r.reset) >>
    ELSE << >>

reset(r) == << Store(register_address(r), r.reset) >>

set_fields_overwrite_requires(r, fs) ==
    /\ are_types_unique_v(fs)
    /\ are_fields_in_register(r, fs)
    /\ are_fields_settable(fs)

\* Mutant: the bits outside the named fields are left zero instead of
\* taken from the reset value.
set_fields_overwrite_drops_reset(r, fs, vs) ==
    << Store(register_address(r), field_values(fs, vs)) >>

set_fields_overwrite(r, fs, vs) ==
    LET cleared_reset_value == And(Not(fields_bitmask(fs)), r.reset) IN
    << Store(register_address(r), Or(field_values(fs, vs), cleared_reset_value)) >>

\* The Thumb variant: the same word, stored by one str instruction.
set_fields_overwrite_size_optimized(r, fs, vs) ==
    LET cleared_reset_value == And(Not(fields_bitmask(fs)), r.reset)
        register_value_to_set == Or(field_values(fs, vs), cleared_reset_value)
    IN  << Store(r.base + r.offset, register_value_to_set) >>

\* -------------------------------------------------- register_write_only

\* Mutant: the SET alias is used when the register has one.
wo_set_bits_impl_set_alias(r, ps) ==
    IF r.atomic
    THEN << Store(register_address_atomic_set(r), get_bit_positions_bitmask(ps)) >>
    ELSE << Store(register_address(r), get_bit_positions_bitmask(ps)) >>

wo_set_bits_impl(r, ps) ==
    << Store(register_address(r), get_bit_positions_bitmask(ps)) >>

wo_set_bits_requires(r, ps) ==
    /\ \A i \in 1 .. Len(ps) : is_bit_position_in_any_write_only_field(r, ps[i])
    /\ are_values_unique(ps)

\* --------------------------------------------------- register_read_only

get(r, m) == << Load(register_address(r), m) >>

bit_check_requires(r, ps) ==
    /\ \A i \in 1 .. Len(ps) : is_bit_position_in_any_readable_field(r, ps[i])
    /\ are_values_unique(ps)

\* Mutant: the test for any bit demands every bit of the mask.
is_any_bit_set_result_all(m, mask) == And(m, mask) = mask

\* evaluate(bitmask) of is_any_bit_set_impl and are_all_bits_set_impl
is_any_bit_set_result(m, mask) == And(m, mask) # Zero

\* Mutant: the test for all bits is content with one bit of the mask.
are_all_bits_set_result_any(m, mask) == And(m, mask) # Zero

are_all_bits_set_result(m, mask) == And(m, mask) = mask

\* Mutant: the word is not shifted, so that bit 0 is tested.
bit_check_shortcut_unshifted(m, ps) == And(m, One) # Zero

\* The single-position shortcut of bit_check_impl (GCC builds).
bit_check_shortcut(m, ps) == And(Shr(m, ps[1]), One) # Zero

get_fields_requires(r, fs) ==
    /\ are_types_unique_v(fs)
    /\ are_fields_in_register(r, fs)
    /\ are_fields_readable(fs)

\* Mutant: the register is read once for every requested field.
get_fields_read_per_field(r, m, fs) ==
    [ i \in 1 .. Len(fs) |-> Load(register_address(r), m) ]

\* register_value = base_t::const_reference(): get_fields reads the register
\* once, whatever the number of fields.
get_fields_read(r, m, fs) == << Load(register_address(r), m) >>

\* Mutant: the bitmask is applied also when the register has one field.
get_fields_always_masked(r, m, fs) ==
    [ i \in 1 .. Len(fs) |-> get_field_value_from_register_value(fs[i], m) ]

\* The values held by the type_map that get_fields returns, in request order.
get_fields(r, m, fs) ==
    IF r.optimize_get_fields /\ Len(r.fields) = 1
    THEN << get_field_value_from_register_value_no_bitmask(fs[1], m) >>
    ELSE [ i \in 1 .. Len(fs) |-> get_field_value_from_register_value(fs[i], m) ]

\* --------------------------------------------------------------- type_map

\* Mutant: every key is looked up at the first entry.
type_pack_index_first(key, keys) == 0

\* type_pack_index<Type, Keys...>: the first index of the key in the keys,
\* counted from 0.
RECURSIVE type_pack_index(_, _)
type_pack_index(key, keys) ==
    IF Head(keys) = key THEN 0 ELSE 1 + type_pack_index(key, Tail(keys))

\* type_map<Keys...>{ values... }: the values are stored in an array in the
\* order of the constructor arguments.
type_map(keys, values) == [ keys |-> keys, value_list |-> values ]

\* type_map::get<KeyToGet>(): std::get<index>(value_list); TLA+ sequences
\* are indexed from 1.
type_map_get(map, key) == map.value_list[type_pack_index(key, map.keys) + 1]

\* ------------------------------------------------------------ configuration

\* The fields of test_register_rw.
test_field_rw == Field(0, 4, "read_write", Word(0))

test_field_ro == Field(4, 4, "read_only", Word(0))

test_field_wo == Field(12, 1, "write_only", Word(0))

test_field_any_value == Field(13, 3, "read_write", Word(0))

test_field_sc == Field(20, 4, "self_clearing", Word(0))

test_field_wc == Field(28, 4, "write_clear", Word(0))

\* A field that no modelled register declares.
foreign_field == Field(8, 2, "read_write", Word(0))

PeripheralBaseAddress == 335544320

\* test_register_rw and test_register_ro of test.cpp.
test_register_rw ==
    Register("read_write", PeripheralBaseAddress, 4, Word(0), TRUE,
             << test_field_rw, test_field_ro, test_field_wo, test_field_sc,
                test_field_wc, test_field_any_value >>, TRUE)

test_register_ro ==
    Register("read_write", PeripheralBaseAddress, 8, Word(0), FALSE,
             << Field(0, 4, "read_only", Word(0)) >>, TRUE)

\* The registers of the model: the two above and further layouts over the
\* same fields, with and without the atomic aliases, of each register class.
Registers ==
    { test_register_rw,
      test_register_ro,
      Register("read_write", PeripheralBaseAddress, 32, Word(160), FALSE,
               << test_field_rw, test_field_ro >>, TRUE),
      Register("read_write", PeripheralBaseAddress, 12, Word(0), TRUE,
               << test_field_sc, test_field_wo >>, TRUE),
      Register("read_write", PeripheralBaseAddress, 16, Word(0), FALSE,
               << test_field_wc, test_field_any_value >>, TRUE),
      Register("read_write", PeripheralBaseAddress, 20, Word(0), FALSE,
               << test_field_any_value >>, TRUE),
      Register("read_write", PeripheralBaseAddress, 36, Word(0), FALSE,
               << test_field_any_value, Field(12, 4, "read_write", Word(0)) >>, TRUE),
      Register("write_only", PeripheralBaseAddress, 24, Word(4096), TRUE,
               << test_field_wo, test_field_rw >>, TRUE),
      Register("write_only", PeripheralBaseAddress, 40, Word(0), FALSE,
               << test_field_wo >>, TRUE),
      Register("read_only", PeripheralBaseAddress, 28, Word(0), FALSE,
               << test_field_ro, test_field_wc >>, TRUE) }

\* What the hardware register may hold when the program starts.
MemValues == { Word(0), Word(163), Word(1515870810), AllOnes }

\* Values supplied to set_fields, set_fields_overwrite and unsafe::set.
ArgValues == { Word(1), Word(26) }

\* Bit positions supplied to the bit operations of register r: the first
\* and the second bit of every field and one bit that lies in no field.
ArgBits(r) ==
    { r.fields[i].start : i \in 1 .. Len(r.fields) }
        \cup { r.fields[1].start + 1, 10 }

\* Bit positions relative to a field, as passed to the constructor of a
\* field: BIT0, BIT1 and BIT3 of test.cpp.
ArgIndices == { 0, 1, 3 }

ArgFields(r) == { r.fields[i] : i \in 1 .. Len(r.fields) } \cup { foreign_field }

SeqsUpTo(S, n) == UNION { [ 1 .. k -> S ] : k \in 1 .. n }

\* ------------------------------------------------------------------- state

VARIABLES
    reg,    \* the register the program operates on (fixed configuration)
    mem,    \* the word the hardware register holds
    call,   \* the last call: operation, entry point, arguments, status
    pre,    \* the word the register held when the last call began
    bus,    \* the bus transactions the last call issued
    ret,    \* the words the last call returned (get, get_fields)
    flag,   \* the boolean the last call returned (bit tests)
    prev,   \* the call before the last one, kept when the two form a pair
    pc,     \* shared bus: where the call in progress stands
    loaded, \* shared bus: the word the call's load read
    at_store \* shared bus: the word the register held when the store arrived

vars == << reg, mem, call, pre, bus, ret, flag, prev, pc, loaded, at_store >>

bus_vars == << pc, loaded, at_store >>

Call(op, entry, ps, fs, vs) ==
    [ op |-> op, entry |-> entry, bits |-> ps, fields |-> fs, values |-> vs,
      status |-> "done" ]

no_call == Call("none", "checked", << >>, << >>, << >>)

no_prev == [ call |-> no_call, pre |-> Zero, ret |-> << >> ]

\* Pairs of consecutive calls that are remembered: a set_fields followed by
\* a get_fields of the same fields, a toggle_bits followed by a toggle_bits
\* of the same positions, the encoding of a value followed by its decoding,
\* and a get_fields followed by a lookup in the map it returned.
IsPair(old, new) ==
    /\ old.status = "done"
    /\ \/ /\ old.bits = new.bits
          /\ old.fields = new.fields
          /\ \/ old.op = "set_fields" /\ new.op = "get_fields"
             \/ old.op = "toggle_bits" /\ new.op = "toggle_bits"
             \/ /\ old.op = "get_register_value_from_field_value"
                /\ new.op = "get_field_value_from_register_value"
       \/ old.op = "get_fields" /\ new.op = "type_map_get"

Init ==
    /\ reg \in Registers
    /\ mem \in MemValues
    /\ call = no_call
    /\ pre = mem
    /\ bus = << >>
    /\ ret = << >>
    /\ flag = FALSE
    /\ prev = no_prev
    /\ pc = "idle"
    /\ loaded = Zero
    /\ at_store = Zero

\* The call c is made: when its constraint ok holds it issues the
\* transactions txs and returns r and f, otherwise it is rejected.
Perform(c, ok, txs, r, f) ==
    /\ call' = [ c EXCEPT !.status = IF ok THEN "done" ELSE "rejected" ]
    /\ pre' = mem
    /\ bus' = IF ok THEN txs ELSE << >>
    /\ mem' = IF ok THEN HwRun(reg, mem, txs) ELSE mem
    /\ ret' = IF ok THEN r ELSE << >>
    /\ flag' = IF ok THEN f ELSE FALSE
    /\ prev' = IF IsPair(call, c)
               THEN [ call |-> call, pre |-> pre, ret |-> ret ]
               ELSE no_prev
    /\ UNCHANGED << reg, bus_vars >>

Readable == reg.kind \in { "read_only", "read_write" }

Writable == reg.kind \in { "write_only", "read_write" }

\* --------------------------------------------- actions: read_write register

SetBits(ps) ==
    /\ reg.kind = "read_write"
    /\ Perform(Call("set_bits", "checked", ps, << >>, << >>),
               set_bits_requires(reg, ps), set_bits_impl(reg, mem, ps), << >>, FALSE)

ClearBits(ps) ==
    /\ reg.kind = "read_write"
    /\ Perform(Call("clear_bits", "checked", ps, << >>, << >>),
               clear_bits_requires(reg, ps), clear_bits_impl(reg, mem, ps), << >>, FALSE)

ToggleBits(ps) ==
    /\ reg.kind = "read_write"
    /\ Perform(Call("toggle_bits", "checked", ps, << >>, << >>),
               toggle_bits_requires(reg, ps), toggle_bits_impl(reg, mem, ps), << >>, FALSE)

UnsafeSetBits(ps) ==
    /\ reg.kind = "read_write"
    /\ Perform(Call("set_bits", "unsafe", ps, << >>, << >>),
               TRUE, set_bits_impl(reg, mem, ps), << >>, FALSE)

UnsafeClearBits(ps) ==
    /\ reg.kind = "read_write"
    /\ Perform(Call("clear_bits", "unsafe", ps, << >>, << >>),
               TRUE, clear_bits_impl(reg, mem, ps), << >>, FALSE)

UnsafeToggleBits(ps) ==
    /\ reg.kind = "read_write"
    /\ Perform(Call("toggle_bits", "unsafe", ps, << >>, << >>),
               TRUE, toggle_bits_impl(reg, mem, ps), << >>, FALSE)

SetFields(fs, vs) ==
    /\ reg.kind = "read_write"
    /\ Perform(Call("set_fields", "checked", << >>, fs, vs),
               set_fields_requires(reg, fs), set_fields(reg, mem, fs, vs), << >>, FALSE)

ClearFields(fs) ==
    /\ reg.kind = "read_write"
    /\ Perform(Call("clear_fields", "checked", << >>, fs, << >>),
               clear_fields_requires(reg, fs), clear_fields(reg, mem, fs), << >>, FALSE)

\* ------------------------------------------ actions: register_write_base

UnsafeSet(v) ==
    /\ Writable
    /\ Perform(Call("set", "unsafe", << >>, << >>, << v >>),
               TRUE, unsafe_set(reg, v), << >>, FALSE)

Reset ==
    /\ Writable
    /\ Perform(Call("reset", "checked", << >>, << >>, << >>),
               TRUE, reset(reg), << >>, FALSE)

SetFieldsOverwrite(fs, vs) ==
    /\ Writable
    /\ Perform(Call("set_fields_overwrite", "checked", << >>, fs, vs),
               set_fields_overwrite_requires(reg, fs),
               set_fields_overwrite(reg, fs, vs), << >>, FALSE)

SetFieldsOverwriteSizeOptimized(fs, vs) ==
    /\ Writable
    /\ Perform(Call("set_fields_overwrite_size_optimized", "checked", << >>, fs, vs),
               set_fields_overwrite_requires(reg, fs),
               set_fields_overwrite_size_optimized(reg, fs, vs), << >>, FALSE)

\* ------------------------------------------ actions: register_write_only

WoSetBits(ps) ==
    /\ reg.kind = "write_only"
    /\ Perform(Call("set_bits", "checked", ps, << >>, << >>),
               wo_set_bits_requires(reg, ps), wo_set_bits_impl(reg, ps), << >>, FALSE)

WoUnsafeSetBits(ps) ==
    /\ reg.kind = "write_only"
    /\ Perform(Call("set_bits", "unsafe", ps, << >>, << >>),
               TRUE, wo_set_bits_impl(reg, ps), << >>, FALSE)

\* ------------------------------------------- actions: register_read_only

Get ==
    /\ Readable
    /\ Perform(Call("get", "checked", << >>, << >>, << >>),
               TRUE, get(reg, mem), << mem >>, FALSE)

\* bit_check_impl: one load; a GCC build answers a single position by the
\* shortcut, every other build and call by evaluate(bitmask).
IsAnyBitSet(ps) ==
    /\ Readable
    /\ \E gnuc \in BOOLEAN :
        Perform(Call("is_any_bit_set", "checked", ps, << >>, << >>),
                bit_check_requires(reg, ps), get(reg, mem), << >>,
                IF gnuc /\ Len(ps) = 1 THEN bit_check_shortcut(mem, ps)
                ELSE is_any_bit_set_result(mem, get_bit_positions_bitmask(ps)))

AreAllBitsSet(ps) ==
    /\ Readable
    /\ \E gnuc \in BOOLEAN :
        Perform(Call("are_all_bits_set", "checked", ps, << >>, << >>),
                bit_check_requires(reg, ps), get(reg, mem), << >>,
                IF gnuc /\ Len(ps) = 1 THEN bit_check_shortcut(mem, ps)
                ELSE are_all_bits_set_result(mem, get_bit_positions_bitmask(ps)))

UnsafeIsAnyBitSet(ps) ==
    /\ Readable
    /\ \E gnuc \in BOOLEAN :
        Perform(Call("is_any_bit_set", "unsafe", ps, << >>, << >>),
                TRUE, get(reg, mem), << >>,
                IF gnuc /\ Len(ps) = 1 THEN bit_check_shortcut(mem, ps)
                ELSE is_any_bit_set_result(mem, get_bit_positions_bitmask(ps)))

UnsafeAreAllBitsSet(ps) ==
    /\ Readable
    /\ \E gnuc \in BOOLEAN :
        Perform(Call("are_all_bits_set", "unsafe", ps, << >>, << >>),
                TRUE, get(reg, mem), << >>,
                IF gnuc /\ Len(ps) = 1 THEN bit_check_shortcut(mem, ps)
                ELSE are_all_bits_set_result(mem, get_bit_positions_bitmask(ps)))

\* The zero-argument overloads.
IsAnyBitSetRegister ==
    /\ Readable
    /\ Perform(Call("is_any_bit_set", "checked", << >>, << >>, << >>),
               TRUE, get(reg, mem), << >>, mem # Zero)

AreAllBitsSetRegister ==
    /\ Readable
    /\ Perform(Call("are_all_bits_set", "checked", << >>, << >>, << >>),
               TRUE, get(reg, mem), << >>, mem = AllOnes)

GetFields(fs) ==
    /\ Readable
    /\ Perform(Call("get_fields", "checked", << >>, fs, << >>),
               get_fields_requires(reg, fs), get_fields_read(reg, mem, fs),
               get_fields(reg, mem, fs), FALSE)

\* fields.get<Key>() on the map a get_fields call has just returned: the
\* keys of the map are the requested fields, its values the returned ones.
TypeMapGet(key) ==
    Perform(Call("type_map_get", "checked", << >>, << key >>, << >>),
            is_type_in_list_v(key, call.fields), << >>,
            << type_map_get(type_map(call.fields, ret), key) >>, FALSE)

\* ----------------------------------------------------------- actions: field

\* field::field(const BitPositionContainer&... containers): a field object is
\* built from bits of the field owner; it stores the bitmask of the bits and
\* accesses no register.
ConstructField(f, owner, ps) ==
    Perform(Call("field", "checked", ps, << f, owner >>, << >>),
            is_bit_position_container_in_field(f, owner), << >>,
            << get_bitmask_from_bit_positions(f, ps) >>, FALSE)

\* ------------------------------------------------------------ specification

\* The first call of a behaviour: any operation of the register's class on
\* any arguments, from any word of MemValues.
FirstCall ==
    /\ call = no_call
    /\ \/ \E ps \in SeqsUpTo(ArgBits(reg), MaxArgs) :
            \/ SetBits(ps)
            \/ ClearBits(ps)
            \/ ToggleBits(ps)
            \/ UnsafeSetBits(ps)
            \/ UnsafeClearBits(ps)
            \/ UnsafeToggleBits(ps)
            \/ WoSetBits(ps)
            \/ WoUnsafeSetBits(ps)
            \/ IsAnyBitSet(ps)
            \/ AreAllBitsSet(ps)
            \/ UnsafeIsAnyBitSet(ps)
            \/ UnsafeAreAllBitsSet(ps)
       \/ \E fs \in SeqsUpTo(ArgFields(reg), MaxArgs) :
            \/ ClearFields(fs)
            \/ GetFields(fs)
            \/ \E vs \in [ 1 .. Len(fs) -> ArgValues ] :
                \/ SetFields(fs, vs)
                \/ SetFieldsOverwrite(fs, vs)
                \/ SetFieldsOverwriteSizeOptimized(fs, vs)
       \/ \E f, owner \in ArgFields(reg) :
            \E ps \in SeqsUpTo(ArgIndices, MaxArgs) : ConstructField(f, owner, ps)
       \/ \E v \in ArgValues : UnsafeSet(v)
       \/ Reset
       \/ Get
       \/ IsAnyBitSetRegister
       \/ AreAllBitsSetRegister

\* The calls that follow a call on the same arguments: get_fields after
\* set_fields, toggle_bits after toggle_bits.
ReadBack ==
    /\ call.op = "set_fields"
    /\ call.status = "done"
    /\ GetFields(call.fields)

ToggleAgain ==
    /\ call.op = "toggle_bits"
    /\ call.status = "done"
    /\ IF call.entry = "checked" THEN ToggleBits(call.bits)
       ELSE UnsafeToggleBits(call.bits)

\* A field is looked up in the map that get_fields returned.
LookUp ==
    /\ call.op = "get_fields"
    /\ call.status = "done"
    /\ \E key \in ArgFields(reg) : TypeMapGet(key)

Next ==
    \/ FirstCall
    \/ ReadBack
    \/ ToggleAgain
    \/ LookUp

Spec == Init /\ [][Next]_vars

\* --------------------------------------------------------------- shared bus

\* The register is shared with another bus master (a DMA engine, the other
\* core, an interrupt handler), which may write it between the bus
\* transactions of a call. A call of a bit or field write operation is
\* followed transaction by transaction: its load, when it has one, and its
\* store.

\* The transactions of the call c when its load reads the word m.
Transactions(c, m) ==
    CASE c.op = "set_bits" -> set_bits_impl(reg, m, c.bits)
      [] c.op = "clear_bits" -> clear_bits_impl(reg, m, c.bits)
      [] c.op = "toggle_bits" -> toggle_bits_impl(reg, m, c.bits)
      [] c.op = "set_fields" -> set_fields(reg, m, c.fields, c.values)
      [] c.op = "clear_fields" -> clear_fields(reg, m, c.fields)

\* The constraint of the call c; the unsafe_operations variants have none.
Accepted(c) ==
    \/ c.entry = "unsafe"
    \/ CASE c.op = "set_bits" -> set_bits_requires(reg, c.bits)
         [] c.op = "clear_bits" -> clear_bits_requires(reg, c.bits)
         [] c.op = "toggle_bits" -> toggle_bits_requires(reg, c.bits)
         [] c.op = "set_fields" -> set_fields_requires(reg, c.fields)
         [] c.op = "clear_fields" -> clear_fields_requires(reg, c.fields)

BusCalls ==
    { Call(op, entry, ps, << >>, << >>) :
        op \in { "set_bits", "clear_bits", "toggle_bits" },
        entry \in { "checked", "unsafe" },
        ps \in SeqsUpTo(ArgBits(reg), MaxArgs) }
    \cup { Call("clear_fields", "checked", << >>, fs, << >>) :
              fs \in SeqsUpTo(ArgFields(reg), MaxArgs) }
    \cup UNION { { Call("set_fields", "checked", << >>, fs, vs) :
                      vs \in [ 1 .. Len(fs) -> ArgValues ] } :
                  fs \in SeqsUpTo(ArgFields(reg), MaxArgs) }

\* An accepted call begins; nothing is on the bus yet.
BusBegin ==
    /\ pc = "idle"
    /\ \E c \in BusCalls :
        /\ Accepted(c)
        /\ call' = c
        /\ pc' = IF Len(Transactions(c, mem)) = 2 THEN "load" ELSE "store"
    /\ pre' = mem
    /\ UNCHANGED << reg, mem, bus, ret, flag, prev, loaded, at_store >>

\* base_t::const_reference() is read.
BusLoad ==
    /\ pc = "load"
    /\ loaded' = mem
    /\ bus' = << Load(register_address(reg), mem) >>
    /\ pc' = "store"
    /\ UNCHANGED << reg, mem, call, pre, ret, flag, prev, at_store >>

\* The reference the call assigns to is written, with the value computed
\* from the word that was loaded.
BusStore ==
    /\ pc = "store"
    /\ LET txs == Transactions(call, loaded)
           tx == txs[Len(txs)]
       IN  /\ mem' = HwAccess(reg, mem, tx)
           /\ bus' = Append(bus, tx)
    /\ at_store' = mem
    /\ pc' = "done"
    /\ UNCHANGED << reg, call, pre, ret, flag, prev, loaded >>

\* The other bus master writes the register while the call is in progress.
OtherMaster ==
    /\ pc \in { "load", "store" }
    /\ \E v \in MemValues \ { mem } : mem' = v
    /\ UNCHANGED << reg, call, pre, bus, ret, flag, prev, pc, loaded, at_store >>

InitBus ==
    /\ Init
    /\ reg.kind = "read_write"

NextBus ==
    \/ BusBegin
    \/ BusLoad
    \/ BusStore
    \/ OtherMaster

SpecBus == InitBus /\ [][NextBus]_vars

\* ------------------------------------------------------- field descriptors

\* A field<StartBit, LengthInBits, ...> is defined and its conversions are
\* applied to values. The descriptors are those for which the constant
\* evaluation of the bitmask is defined (1 <= length <= 32, start < 32); the
\* field template has no further constraint on the two numbers.
FieldStarts == { 0, 4, 13, 28, 30, 31 }

FieldLengths == { 1, 3, 4, 8, 32 }

FieldWords == { Word(0), Word(1), Word(26), Word(163), Word(1515870810), AllOnes }

\* The values passed to a conversion of the field f: the words above and
\* the same words cut to the width of the field.
FieldArgs(f) == FieldWords \cup { { b \in v : b < f.len } : v \in FieldWords }

InitField ==
    /\ \E s \in FieldStarts, l \in FieldLengths :
        reg = Register("read_write", PeripheralBaseAddress, 0, Zero, FALSE,
                       << Field(s, l, "read_write", Zero) >>, TRUE)
    /\ mem = Zero
    /\ call = no_call
    /\ pre = mem
    /\ bus = << >>
    /\ ret = << >>
    /\ flag = FALSE
    /\ prev = no_prev
    /\ pc = "idle"
    /\ loaded = Zero
    /\ at_store = Zero

\* The field is instantiated: its bitmask is computed.
DefineField ==
    /\ call = no_call
    /\ Perform(Call("field_definition", "checked", << >>, << reg.fields[1] >>, << >>),
               TRUE, << >>, << bitmask(reg.fields[1]) >>, FALSE)

FieldEncode(v) ==
    /\ call.op \in { "none", "field_definition" }
    /\ Perform(Call("get_register_value_from_field_value", "checked",
                    << >>, << reg.fields[1] >>, << v >>),
               TRUE, << >>,
               << get_register_value_from_field_value(reg.fields[1], v) >>, FALSE)

FieldDecode ==
    /\ call.op = "get_register_value_from_field_value"
    /\ Perform(Call("get_field_value_from_register_value", "checked",
                    << >>, << reg.fields[1] >>, call.values),
               TRUE, << >>,
               << get_field_value_from_register_value(reg.fields[1], ret[1]) >>, FALSE)

NextField ==
    \/ DefineField
    \/ \E v \in FieldArgs(reg.fields[1]) : FieldEncode(v)
    \/ FieldDecode

SpecField == InitField /\ [][NextField]_vars

\* ------------------------------------------------------------------ claims

\* The vocabulary of the claims, stated on bit positions.

\* The plain address of the register: base address + offset.
Plain == reg.base + reg.offset

\* OR of 1 << p over the positions ps.
PositionsMask(ps) == { ps[i] : i \in 1 .. Len(ps) }

\* The bit positions a field occupies.
FieldBits(f) == { b \in BitIndex : f.start <= b /\ b < f.start + f.len }

\* The value v shifted to the start bit of f and masked by the bitmask of f.
Placed(f, v) == { b \in FieldBits(f) : (b - f.start) \in v }

\* The value v truncated to the width of f.
Truncated(f, v) == { b \in v : b < f.len }

CombinedMask(fs) == UNION { FieldBits(fs[i]) : i \in 1 .. Len(fs) }

CombinedValues(fs, vs) == UNION { Placed(fs[i], vs[i]) : i \in 1 .. Len(fs) }

Loads == { i \in 1 .. Len(bus) : bus[i].kind = "load" }

Stores == { i \in 1 .. Len(bus) : bus[i].kind = "store" }

Done(op) == call.op = op /\ call.status = "done"

\* C1: on a read-write register with atomic support, set_bits, clear_bits
\* and toggle_bits (checked or unsafe entry) each issue exactly one store of
\* the combined bit mask and no load: set_bits to plain + 0x2000, clear_bits
\* to plain + 0x3000, toggle_bits to plain + 0x1000; nothing is stored to the
\* plain address.
C1_AtomicBitOperations ==
    (reg.kind = "read_write" /\ reg.atomic) =>
        /\ Done("set_bits") =>
            bus = << [ kind |-> "store", addr |-> Plain + 8192,
                       val |-> PositionsMask(call.bits) ] >>
        /\ Done("clear_bits") =>
            bus = << [ kind |-> "store", addr |-> Plain + 12288,
                       val |-> PositionsMask(call.bits) ] >>
        /\ Done("toggle_bits") =>
            bus = << [ kind |-> "store", addr |-> Plain + 4096,
                       val |-> PositionsMask(call.bits) ] >>

C1_Witness ==
    /\ reg.kind = "read_write" /\ reg.atomic
    /\ Done("set_bits")
    /\ Len(call.bits) = 2
    /\ Len(bus) = 1
    /\ mem # pre

\* C2: on a read-write register without atomic support, set_bits, clear_bits
\* and toggle_bits each issue one load at the plain address followed by one
\* store at the plain address of read | mask, read & ~mask and read ^ mask;
\* and no operation of a register without atomic support accesses the XOR,
\* SET or CLEAR alias address.
C2_PlainBitOperations ==
    /\ (reg.kind = "read_write" /\ ~ reg.atomic) =>
        /\ Done("set_bits") =>
            bus = << [ kind |-> "load", addr |-> Plain, val |-> pre ],
                     [ kind |-> "store", addr |-> Plain,
                       val |-> pre \cup PositionsMask(call.bits) ] >>
        /\ Done("clear_bits") =>
            bus = << [ kind |-> "load", addr |-> Plain, val |-> pre ],
                     [ kind |-> "store", addr |-> Plain,
                       val |-> pre \ PositionsMask(call.bits) ] >>
        /\ Done("toggle_bits") =>
            bus = << [ kind |-> "load", addr |-> Plain, val |-> pre ],
                     [ kind |-> "store", addr |-> Plain,
                       val |-> (pre \ PositionsMask(call.bits))
                                   \cup (PositionsMask(call.bits) \ pre) ] >>
    /\ ~ reg.atomic =>
        \A i \in 1 .. Len(bus) :
            bus[i].addr \notin { Plain + 4096, Plain + 8192, Plain + 12288 }

C2_Witness ==
    /\ reg.kind = "read_write" /\ ~ reg.atomic
    /\ Done("clear_bits")
    /\ Len(call.bits) = 2
    /\ Len(bus) = 2
    /\ mem # pre

\* C3: set_fields always does a read-modify-write at the plain address, also
\* on a register with atomic support: one load, then one store of
\* (read & ~combined_mask) | combined_values.
C3_SetFieldsReadModifyWrite ==
    Done("set_fields") =>
        bus = << [ kind |-> "load", addr |-> Plain, val |-> pre ],
                 [ kind |-> "store", addr |-> Plain,
                   val |-> (pre \ CombinedMask(call.fields))
                               \cup CombinedValues(call.fields, call.values) ] >>

C3_Witness ==
    /\ reg.atomic
    /\ Done("set_fields")
    /\ Len(call.fields) = 2
    /\ Len(bus) = 2
    /\ pre \cap CombinedMask(call.fields) # { }
    /\ mem # pre

\* C4: after set_fields the register differs from the word it held before
\* the call only in bit positions covered by the bitmasks of the named
\* fields, for every prior word and every value, also one wider than its
\* field.
C4_SetFieldsFrame ==
    Done("set_fields") =>
        \A b \in BitIndex :
            (b \in mem) # (b \in pre) => b \in CombinedMask(call.fields)

\* A value wider than its field has been written and the register changed.
C4_Witness ==
    /\ Done("set_fields")
    /\ \E i \in 1 .. Len(call.fields) :
        \E b \in call.values[i] : b >= call.fields[i].len
    /\ mem # pre
    /\ pre \ CombinedMask(call.fields) # { }

NonOverlapping(fs) ==
    \A i, j \in 1 .. Len(fs) :
        i # j => FieldBits(fs[i]) \cap FieldBits(fs[j]) = { }

\* The value the field f holds in the word m.
FieldValue(f, m) == { b - f.start : b \in m \cap FieldBits(f) }

\* A get_fields that directly follows an accepted set_fields of the same
\* fields.
RoundTrip == Done("get_fields") /\ prev.call.op = "set_fields"

\* C5 as stated: set_fields(F1 = v1, ..., Fn = vn) followed by
\* get_fields(F1, ..., Fn), with no modification of the register in between,
\* returns exactly v1, ..., vn.
C5_RoundTripExact ==
    RoundTrip => ret = prev.call.values

\* C5 as amended: on pairwise non-overlapping fields the round trip returns
\* for each field its value truncated to the field's width; on a register
\* that declares a single field (unmasked decode) the returned value also
\* carries the register's unchanged bits above the field, shifted down by
\* the field's start bit.
C5_RoundTripTruncated ==
    (RoundTrip /\ NonOverlapping(call.fields)) =>
        IF reg.optimize_get_fields /\ Len(reg.fields) = 1
        THEN LET f == call.fields[1] IN
             ret = << Truncated(f, prev.call.values[1])
                          \cup { b - f.start :
                                   b \in { x \in prev.pre : x >= f.start + f.len } } >>
        ELSE /\ Len(ret) = Len(call.fields)
             /\ \A i \in 1 .. Len(ret) :
                    ret[i] = Truncated(call.fields[i], prev.call.values[i])

\* Two fields were written over other content and read back.
C5_Witness ==
    /\ RoundTrip
    /\ Len(call.fields) = 2
    /\ NonOverlapping(call.fields)
    /\ \A i \in 1 .. 2 : ret[i] # { } /\ ret[i] # FieldValue(call.fields[i], prev.pre)

\* C6 as stated: set_fields_overwrite issues exactly one store at the plain
\* address and no load, of (register_reset_value & ~combined_mask) |
\* combined_values; so every field not named in the call ends up holding the
\* reset-value bits and every named field holds its supplied value.
C6_OverwriteExact ==
    Done("set_fields_overwrite") =>
        /\ bus = << [ kind |-> "store", addr |-> Plain,
                      val |-> (reg.reset \ CombinedMask(call.fields))
                                  \cup CombinedValues(call.fields, call.values) ] >>
        /\ \A i \in 1 .. Len(reg.fields) :
            (\A j \in 1 .. Len(call.fields) : call.fields[j] # reg.fields[i]) =>
                mem \cap FieldBits(reg.fields[i]) = reg.reset \cap FieldBits(reg.fields[i])
        /\ \A j \in 1 .. Len(call.fields) :
            FieldValue(call.fields[j], mem) = call.values[j]

\* C6 as amended: the same single store; every field that is not named and
\* overlaps no named field ends up holding the reset-value bits, and every
\* named field holds its supplied value truncated to the field's width when
\* the named fields do not overlap.
C6_OverwriteTruncated ==
    Done("set_fields_overwrite") =>
        /\ bus = << [ kind |-> "store", addr |-> Plain,
                      val |-> (reg.reset \ CombinedMask(call.fields))
                                  \cup CombinedValues(call.fields, call.values) ] >>
        /\ \A i \in 1 .. Len(reg.fields) :
            FieldBits(reg.fields[i]) \cap CombinedMask(call.fields) = { } =>
                mem \cap FieldBits(reg.fields[i]) = reg.reset \cap FieldBits(reg.fields[i])
        /\ NonOverlapping(call.fields) =>
            \A j \in 1 .. Len(call.fields) :
                FieldValue(call.fields[j], mem) = Truncated(call.fields[j], call.values[j])

\* The register held something else than its reset value in a field that
\* the call did not name, and a non-zero value was written.
C6_Witness ==
    /\ Done("set_fields_overwrite")
    /\ Len(bus) = 1
    /\ reg.reset # { }
    /\ \E i \in 1 .. Len(reg.fields) :
        /\ FieldBits(reg.fields[i]) \cap CombinedMask(call.fields) = { }
        /\ pre \cap FieldBits(reg.fields[i]) # reg.reset \cap FieldBits(reg.fields[i])
    /\ FieldValue(call.fields[1], mem) # { }

HasWriteClear(fs) == \E i \in 1 .. Len(fs) : fs[i].type = "write_clear"

\* C7: clear_fields stores the combined field mask to the atomic CLEAR
\* address exactly when the register supports atomic operations and no
\* requested field is write_clear; in every other case it does a load and a
\* store at the plain address and stores nothing to the CLEAR address.
C7_ClearFieldsRouting ==
    Done("clear_fields") =>
        IF reg.atomic /\ ~ HasWriteClear(call.fields)
        THEN bus = << [ kind |-> "store", addr |-> Plain + 12288,
                        val |-> CombinedMask(call.fields) ] >>
        ELSE /\ Len(bus) = 2
             /\ bus[1] = [ kind |-> "load", addr |-> Plain, val |-> pre ]
             /\ bus[2].kind = "store"
             /\ bus[2].addr = Plain

\* A mixed read_write + write_clear request on a register with atomic support.
C7_Witness ==
    /\ reg.atomic
    /\ Done("clear_fields")
    /\ HasWriteClear(call.fields)
    /\ \E i \in 1 .. Len(call.fields) : call.fields[i].type = "read_write"
    /\ Len(bus) = 2

\* The scenario of C8: a write_clear field occupying bits [28, 32) is the
\* only field cleared, on a register with atomic support.
C8_Scenario ==
    /\ reg.atomic
    /\ Done("clear_fields")
    /\ Len(call.fields) = 1
    /\ call.fields[1].type = "write_clear"
    /\ call.fields[1].start = 28
    /\ call.fields[1].len = 4

\* C8 as stated: in the scenario clear_fields stores the value 1 << 28 to
\* the plain address and nothing to the atomic-clear address.
C8_StoresOneShifted ==
    C8_Scenario =>
        /\ Stores # { }
        /\ \A i \in Stores : bus[i].addr = Plain /\ bus[i].val = { 28 }

\* C8 as amended: in the scenario clear_fields loads the register and stores
\* (read & ~0xF0000000) | (1 << 28) to the plain address, and nothing to the
\* atomic-clear address.
C8_StoresOneShiftedIntoRead ==
    C8_Scenario =>
        bus = << [ kind |-> "load", addr |-> Plain, val |-> pre ],
                 [ kind |-> "store", addr |-> Plain,
                   val |-> (pre \ (28 .. 31)) \cup { 28 } ] >>

C8_Witness ==
    /\ C8_Scenario
    /\ pre \ (28 .. 31) # { }
    /\ pre \cap (28 .. 31) # { 28 }
    /\ Len(bus) = 2

\* C9: the capability flags and the clear value of each of the five field
\* access kinds equal the table: read_only is readable only; write_only is
\* settable only (clear value 0); read_write is readable, settable,
\* clearable, bit-clearable and bit-togglable (clear value 0); self_clearing
\* is readable and settable only; write_clear is settable and clearable but
\* not readable, not bit-clearable and not bit-togglable (clear value 1).
\* Stated of the fields of the register in use.
C9_CapabilityTable ==
    \A i \in 1 .. Len(reg.fields) :
        LET f == reg.fields[i]
            t == f.type
        IN  /\ is_readable(t) <=> t \in { "read_only", "read_write", "self_clearing" }
            /\ is_settable(t) <=>
                   t \in { "write_only", "read_write", "self_clearing", "write_clear" }
            /\ is_clearable(t) <=> t \in { "read_write", "write_clear" }
            /\ is_bit_clearable(t) <=> t = "read_write"
            /\ is_bit_togglable(t) <=> t = "read_write"
            /\ t \in { "write_only", "read_write" } => clear_value(f) = { }
            /\ t = "write_clear" => clear_value(f) = { 0 }

\* The capability an operation needs of what it names, and the field types
\* that have it in the code.
Needs(op) ==
    CASE op \in { "get_fields", "is_any_bit_set", "are_all_bits_set" } -> "readable"
      [] op \in { "set_fields", "set_fields_overwrite", "set_bits" } -> "settable"
      [] op = "clear_fields" -> "clearable"
      [] op = "clear_bits" -> "bit_clearable"
      [] op = "toggle_bits" -> "bit_togglable"
      [] OTHER -> "none"

Having(cap) ==
    CASE cap = "readable" -> { "read_only", "read_write", "self_clearing", "write_clear" }
      [] cap = "settable" -> { "write_only", "read_write", "self_clearing", "write_clear" }
      [] cap = "clearable" -> { "read_write", "write_clear" }
      [] cap = "bit_clearable" -> { "read_write" }
      [] cap = "bit_togglable" -> { "read_write" }
      [] OTHER -> FieldTypes

\* Every field the last call names is a field of the register that has the
\* needed capability, and every bit position it names lies in such a field.
NamesAreValid ==
    /\ \A i \in 1 .. Len(call.fields) :
        /\ \E j \in 1 .. Len(reg.fields) : reg.fields[j] = call.fields[i]
        /\ call.fields[i].type \in Having(Needs(call.op))
    /\ \A i \in 1 .. Len(call.bits) :
        \E j \in 1 .. Len(reg.fields) :
            /\ call.bits[i] \in FieldBits(reg.fields[j])
            /\ reg.fields[j].type \in Having(Needs(call.op))

C11_BitMaskInsideField ==
    Done("field") => ret[1] \subseteq FieldBits(call.fields[1])

\* The operations that name fields and those that name bit positions.
FieldOps == { "get_fields", "set_fields", "set_fields_overwrite", "clear_fields" }

BitOps == { "set_bits", "clear_bits", "toggle_bits", "is_any_bit_set", "are_all_bits_set" }

\* All elements of the sequence s are pairwise distinct.
Distinct(s) == \A i, j \in 1 .. Len(s) : i # j => s[i] # s[j]

\* The last call names a field twice or a bit position twice.
NamesTwice ==
    \/ call.op \in FieldOps /\ ~ Distinct(call.fields)
    \/ call.op \in BitOps /\ ~ Distinct(call.bits)

\* C12 as stated: a call that names the same field twice or the same bit
\* position twice is rejected before any hardware access, and the
\* uniqueness predicates are true exactly when their arguments are pairwise
\* distinct.
C12_DuplicatesRejected ==
    /\ NamesTwice => (call.status = "rejected" /\ bus = << >>)
    /\ call.fields # << >> => (are_types_unique_v(call.fields) <=> Distinct(call.fields))
    /\ call.bits # << >> => (are_values_unique(call.bits) <=> Distinct(call.bits))

\* C12 as amended: the same of the entry points that take their fields or
\* bit positions as template arguments; the unsafe_operations variants
\* accept a bit position given twice and issue their access.
C12_CheckedDuplicatesRejected ==
    /\ (NamesTwice /\ call.entry = "checked") =>
            (call.status = "rejected" /\ bus = << >> /\ mem = pre)
    /\ (NamesTwice /\ call.entry = "unsafe") =>
            (call.status = "done" /\ bus # << >>)
    /\ call.fields # << >> => (are_types_unique_v(call.fields) <=> Distinct(call.fields))
    /\ call.bits # << >> => (are_values_unique(call.bits) <=> Distinct(call.bits))

\* A checked call was rejected although everything it names is valid: it
\* names a bit position twice.
C12_Witness ==
    /\ call.entry = "checked"
    /\ call.op \in BitOps
    /\ ~ Distinct(call.bits)
    /\ NamesAreValid
    /\ call.status = "rejected"
    /\ bus = << >>

\* The bits the call in progress operates on.
OpMask ==
    IF call.op \in { "set_bits", "clear_bits", "toggle_bits" }
    THEN PositionsMask(call.bits)
    ELSE CombinedMask(call.fields)

\* The call is one of the atomic-address operations: a bit operation on a
\* register with atomic support, or a clear_fields without write_clear
\* fields on such a register.
AtomicAddressOperation ==
    /\ reg.atomic
    /\ \/ call.op \in { "set_bits", "clear_bits", "toggle_bits" }
       \/ call.op = "clear_fields" /\ ~ HasWriteClear(call.fields)

\* C13: with another bus master writing the register at any point between
\* the bus transactions of a call, an atomic-address operation loses none of
\* its writes: once the operation is done every bit outside its mask holds
\* what the register held when the store arrived (the last write of the
\* other master), and every bit in the mask has been set, cleared or toggled.
C13_AtomicOperationsKeepOtherWrites ==
    (pc = "done" /\ AtomicAddressOperation) =>
        /\ \A b \in BitIndex \ OpMask : (b \in mem) <=> (b \in at_store)
        /\ call.op = "set_bits" => OpMask \subseteq mem
        /\ call.op \in { "clear_bits", "clear_fields" } => OpMask \cap mem = { }
        /\ call.op = "toggle_bits" =>
               \A b \in OpMask : (b \in mem) <=> (b \notin at_store)

\* The other master changed bits outside the mask after the call began, and
\* the toggle changed the register.
C13_Witness ==
    /\ pc = "done"
    /\ AtomicAddressOperation
    /\ call.op = "toggle_bits"
    /\ at_store \ OpMask # pre \ OpMask
    /\ mem \ OpMask = at_store \ OpMask
    /\ mem # at_store

\* The other master changed a bit outside the mask between the load and the
\* store of the call, and the store put the loaded value back.
LostUpdate ==
    /\ pc = "done"
    /\ Len(bus) = 2
    /\ \E b \in BitIndex \ OpMask :
        /\ (b \in at_store) # (b \in loaded)
        /\ (b \in mem) = (b \in loaded)

\* C14: the read-modify-write paths (set_bits, clear_bits, toggle_bits
\* without atomic support, set_fields on any register, clear_fields without
\* atomic support or with a write_clear field) load and then store, and the
\* store writes outside the mask what the load read: whatever the other
\* master wrote there between the load and the store is overwritten.
C14_ReadModifyWriteOverwrites ==
    (pc = "done" /\ ~ AtomicAddressOperation) =>
        /\ Len(bus) = 2
        /\ bus[1] = [ kind |-> "load", addr |-> Plain, val |-> loaded ]
        /\ bus[2].kind = "store" /\ bus[2].addr = Plain
        /\ \A b \in BitIndex \ OpMask : (b \in mem) <=> (b \in loaded)

\* The interleaving of C14 for set_fields on a register with atomic support.
C14_Witness ==
    /\ LostUpdate
    /\ reg.atomic
    /\ call.op = "set_fields"

\* The same interleaving for a bit operation without atomic support and for
\* the read-modify-write branch of clear_fields.
C14_LostUpdateBitOperation ==
    /\ LostUpdate
    /\ ~ reg.atomic
    /\ call.op \in { "set_bits", "clear_bits", "toggle_bits" }

C14_LostUpdateClearFields ==
    /\ LostUpdate
    /\ reg.atomic
    /\ call.op = "clear_fields"

\* A register operation has been carried out.
RegisterOperation ==
    call.op \notin { "none", "field", "type_map_get" } /\ call.status = "done"

\* C15: every operation issues its bus transactions in one of three shapes:
\* one load; one store; one load followed by one store. No operation issues
\* more than two transactions, and get_fields issues exactly one load
\* however many fields are requested.
C15_TransactionShapes ==
    RegisterOperation =>
        /\ \/ Len(bus) = 1 /\ bus[1].kind = "load"
           \/ Len(bus) = 1 /\ bus[1].kind = "store"
           \/ Len(bus) = 2 /\ bus[1].kind = "load" /\ bus[2].kind = "store"
        /\ call.op = "get_fields" =>
               bus = << [ kind |-> "load", addr |-> Plain, val |-> pre ] >>

\* Two fields holding different values were read by one load.
C15_Witness ==
    /\ Done("get_fields")
    /\ Len(call.fields) = 2
    /\ Len(bus) = 1
    /\ Len(ret) = 2
    /\ ret[1] # ret[2]

\* C16: get_fields performs one load and returns for each requested field F
\* the value (register & bitmask(F)) >> start(F); when the register has
\* exactly one field overall it returns register >> start(F) without
\* masking. For the fields A = bits [0, 4) and B = bits [4, 8) and the
\* register value 0xA3 it yields A = 0x3 and B = 0xA.
C16_GetFieldsDecodes ==
    Done("get_fields") =>
        /\ bus = << [ kind |-> "load", addr |-> Plain, val |-> pre ] >>
        /\ IF Len(reg.fields) = 1
           THEN ret = << { b - call.fields[1].start :
                             b \in { x \in pre : x >= call.fields[1].start } } >>
           ELSE /\ Len(ret) = Len(call.fields)
                /\ \A i \in 1 .. Len(ret) : ret[i] = FieldValue(call.fields[i], pre)
        /\ ( /\ pre = { 0, 1, 5, 7 }
             /\ Len(call.fields) = 2
             /\ FieldBits(call.fields[1]) = 0 .. 3
             /\ FieldBits(call.fields[2]) = 4 .. 7 )
           => ret = << { 0, 1 }, { 1, 3 } >>

\* The scenario: A and B are read from a register holding 0xA3.
C16_Witness ==
    /\ Done("get_fields")
    /\ pre = { 0, 1, 5, 7 }
    /\ Len(call.fields) = 2
    /\ FieldBits(call.fields[1]) = 0 .. 3
    /\ FieldBits(call.fields[2]) = 4 .. 7
    /\ ret = << { 0, 1 }, { 1, 3 } >>

\* A register with one field, holding bits above the field, is read.
C16_SingleFieldUnmasked ==
    /\ Done("get_fields")
    /\ Len(reg.fields) = 1
    /\ \E b \in pre : b >= reg.fields[1].start + reg.fields[1].len
    /\ ret[1] # FieldValue(call.fields[1], pre)

\* A toggle_bits that directly follows a toggle_bits of the same positions.
ToggledTwice == Done("toggle_bits") /\ prev.call.op = "toggle_bits"

\* C17: toggle_bits is self-inverse: applying it twice with the same
\* positions and no modification in between restores the word the register
\* held before the first call, on the XOR alias path and on the
\* read-modify-write path.
C17_ToggleSelfInverse ==
    ToggledTwice => (mem = prev.pre /\ pre # prev.pre)

\* Toggled twice through the XOR alias.
C17_Witness ==
    /\ ToggledTwice
    /\ reg.atomic
    /\ Len(call.bits) = 2
    /\ call.bits[1] # call.bits[2]
    /\ bus[1].addr = Plain + 4096
    /\ mem = prev.pre

\* Toggled twice by read-modify-write.
C17_ToggledTwiceReadModifyWrite ==
    /\ ToggledTwice
    /\ ~ reg.atomic
    /\ Len(bus) = 2
    /\ mem = prev.pre

\* The field of the descriptor specification, and what was done with it.
TheField == reg.fields[1]

Defined == call.op = "field_definition"

Decoded == call.op = "get_field_value_from_register_value"

\* C18: for every field with start s and width w, s + w <= 32, and every
\* value cut to w bits, decoding the encoding of the value gives it back.
C18_DecodeInvertsEncode ==
    ( /\ Decoded
      /\ TheField.start + TheField.len <= 32
      /\ call.values[1] = Truncated(TheField, call.values[1]) )
    => ret[1] = call.values[1]

\* A non-zero value went through a field that does not start at bit 0.
C18_Witness ==
    /\ Decoded
    /\ TheField.start > 0
    /\ TheField.start + TheField.len <= 32
    /\ call.values[1] = Truncated(TheField, call.values[1])
    /\ Cardinality(call.values[1]) >= 2
    /\ prev.ret[1] # call.values[1]
    /\ ret[1] = call.values[1]

\* C19: for every field with width w >= 1 and start s, s + w <= 32, the
\* bitmask (all-ones >> (32 - w)) << s has exactly w set bits, contiguous,
\* the lowest at position s, and is zero elsewhere.
C19_BitmaskShape ==
    (Defined /\ TheField.len >= 1 /\ TheField.start + TheField.len <= 32) =>
        /\ Cardinality(ret[1]) = TheField.len
        /\ \A b \in BitIndex :
               b \in ret[1] <=> (TheField.start <= b /\ b < TheField.start + TheField.len)

C19_Witness ==
    /\ Defined
    /\ TheField.start = 13
    /\ TheField.len = 3
    /\ ret[1] = { 13, 14, 15 }

\* C20: every field descriptor the library accepts satisfies
\* start_bit + length_in_bits <= 32, so that no accepted descriptor has a
\* truncated or shifted-out bitmask.
C20_DescriptorInsideRegister ==
    Defined =>
        /\ TheField.start + TheField.len <= 32
        /\ Cardinality(ret[1]) = TheField.len

\* The one load of a read operation: the plain address, the word held.
OneLoad == bus = << [ kind |-> "load", addr |-> Plain, val |-> pre ] >>

\* C21: is_any_bit_set(positions...) performs one load and returns true
\* exactly when (read & mask) # 0, mask being the OR of 1 << p over the
\* positions; the zero-argument form returns true exactly when the loaded
\* word is non-zero.
C21_IsAnyBitSet ==
    Done("is_any_bit_set") =>
        /\ OneLoad
        /\ flag <=> IF call.bits = << >>
                    THEN pre # { }
                    ELSE (pre \cap PositionsMask(call.bits)) # { }

\* Two positions were tested, one of them set and the other one clear.
C21_Witness ==
    /\ Done("is_any_bit_set")
    /\ Len(call.bits) = 2
    /\ call.bits[1] \in pre
    /\ call.bits[2] \notin pre
    /\ OneLoad
    /\ flag

\* The zero-argument form on a word with bits set in no tested field.
C21_WholeRegister ==
    /\ Done("is_any_bit_set")
    /\ call.bits = << >>
    /\ pre # { }
    /\ flag

\* C22: are_all_bits_set(positions...) performs one load and returns true
\* exactly when (read & mask) = mask; the zero-argument form returns true
\* exactly when the loaded word is all-ones, whatever the fields of the
\* register.
C22_AreAllBitsSet ==
    Done("are_all_bits_set") =>
        /\ OneLoad
        /\ flag <=> IF call.bits = << >>
                    THEN pre = BitIndex
                    ELSE PositionsMask(call.bits) \subseteq pre

\* Two positions were tested, one of them set and the other one clear.
C22_Witness ==
    /\ Done("are_all_bits_set")
    /\ Len(call.bits) = 2
    /\ call.bits[1] \in pre
    /\ call.bits[2] \notin pre
    /\ OneLoad
    /\ ~ flag

\* The zero-argument form answers true on the all-ones word of a register
\* whose fields do not cover the word.
C22_WholeRegister ==
    /\ Done("are_all_bits_set")
    /\ call.bits = << >>
    /\ CombinedMask(reg.fields) # BitIndex
    /\ pre = BitIndex
    /\ flag

\* C23: on a write-only register set_bits issues exactly one store of the
\* bit mask to the plain address, never to the SET alias, whether or not the
\* register has atomic support; and no operation of a write-only register
\* (set_bits, set_fields_overwrite, reset, unsafe::set) issues a load.
C23_WriteOnlyNeverLoads ==
    (reg.kind = "write_only" /\ RegisterOperation) =>
        /\ Loads = { }
        /\ Len(bus) = 1
        /\ bus[1].addr = Plain
        /\ call.op = "set_bits" =>
               bus = << [ kind |-> "store", addr |-> Plain,
                          val |-> PositionsMask(call.bits) ] >>

\* set_bits of two positions on a write-only register that has the aliases.
C23_Witness ==
    /\ reg.kind = "write_only"
    /\ reg.atomic
    /\ Done("set_bits")
    /\ Len(call.bits) = 2
    /\ call.bits[1] # call.bits[2]
    /\ bus = << [ kind |-> "store", addr |-> Plain,
                  val |-> { call.bits[1], call.bits[2] } ] >>

\* The other operations of a write-only register were carried out.
C23_OtherOperations ==
    /\ reg.kind = "write_only"
    /\ ~ reg.atomic
    /\ RegisterOperation
    /\ call.op \in { "reset", "set", "set_fields_overwrite" }
    /\ Loads = { }

\* C24: reset() is unconditional: from any register contents and for any
\* field layout, a register whose fields are all read_only included, it
\* issues exactly one store of the register's reset value to the plain
\* address and no load, and the register then holds the reset value.
C24_ResetUnconditional ==
    Done("reset") =>
        /\ bus = << [ kind |-> "store", addr |-> Plain, val |-> reg.reset ] >>
        /\ mem = reg.reset

\* test_register_ro, whose only field is read_only, was reset from a word
\* other than its reset value.
C24_Witness ==
    /\ Done("reset")
    /\ reg = test_register_ro
    /\ \A i \in 1 .. Len(reg.fields) : reg.fields[i].type = "read_only"
    /\ pre # reg.reset
    /\ mem = reg.reset

\* A register with a non-zero reset value was reset.
C24_NonZeroResetValue ==
    /\ Done("reset")
    /\ reg.reset # Zero
    /\ pre # reg.reset
    /\ mem = reg.reset

\* What get_fields decodes for the field f from the word m: the bits of f
\* shifted down to bit 0; on a register with a single field, every bit from
\* the start of f upwards.
Decoding(f, m) ==
    IF Len(reg.fields) = 1
    THEN { b - f.start : b \in { x \in m : x >= f.start } }
    ELSE FieldValue(f, m)

\* A lookup in the map that the preceding get_fields returned.
LookedUp == Done("type_map_get") /\ prev.call.op = "get_fields"

\* C25: the map returned by get_fields<F1, ..., Fn> holds exactly n values
\* in request order, and the lookup of Fi returns the value decoded for Fi,
\* the entry at the index of Fi in the request, whatever the order in which
\* the register declares its fields.
C25_MapInRequestOrder ==
    /\ Done("get_fields") =>
           /\ Len(ret) = Len(call.fields)
           /\ \A i \in 1 .. Len(ret) : ret[i] = Decoding(call.fields[i], pre)
    /\ LookedUp =>
           /\ ret = << Decoding(call.fields[1], prev.pre) >>
           /\ \E i \in 1 .. Len(prev.call.fields) :
                  /\ prev.call.fields[i] = call.fields[1]
                  /\ ret[1] = prev.ret[i]

\* Two fields were requested in the reverse of their order on the register;
\* they hold different values, and the second one requested was looked up.
C25_Witness ==
    /\ LookedUp
    /\ Len(reg.fields) = 2
    /\ prev.call.fields = << reg.fields[2], reg.fields[1] >>
    /\ call.fields = << reg.fields[1] >>
    /\ prev.ret[1] # prev.ret[2]
    /\ ret = << prev.ret[2] >>

\* The word v is below 2^width(f).
BelowWidth(f, v) == \A b \in v : b < f.len

\* The word m has a bit set above the field f.
BitsAbove(f, m) == \E b \in m : b >= f.start + f.len

\* C26 as stated: every value that get_fields returns for a field F is below
\* 2^width(F) and equals (register & bitmask(F)) >> start(F), also when F is
\* the only field of the register and bits outside F are non-zero.
C26_GetFieldsMasked ==
    Done("get_fields") =>
        \A i \in 1 .. Len(ret) :
            /\ BelowWidth(call.fields[i], ret[i])
            /\ ret[i] = FieldValue(call.fields[i], pre)

\* C26, amended: on a register with more than one field every value that
\* get_fields returns for a field F is below 2^width(F) and equals
\* (register & bitmask(F)) >> start(F); when F is the only field of the
\* register the value is register >> start(F), which is the masked value and
\* below 2^width(F) exactly when no register bit above F is set.
C26_GetFieldsMaskedUnlessSingleField ==
    Done("get_fields") =>
        \A i \in 1 .. Len(ret) :
            LET f == call.fields[i] IN
            IF Len(reg.fields) > 1
            THEN /\ BelowWidth(f, ret[i])
                 /\ ret[i] = FieldValue(f, pre)
            ELSE /\ ret[i] = { b - f.start : b \in { x \in pre : x >= f.start } }
                 /\ BelowWidth(f, ret[i]) <=> ~ BitsAbove(f, pre)
                 /\ (ret[i] = FieldValue(f, pre)) <=> ~ BitsAbove(f, pre)

\* The only field of a register was read while bits above it were set: the
\* value returned does not fit the width of the field.
C26_Witness ==
    /\ Done("get_fields")
    /\ Len(reg.fields) = 1
    /\ reg.fields[1].start > 0
    /\ BitsAbove(reg.fields[1], pre)
    /\ ~ BelowWidth(reg.fields[1], ret[1])
    /\ \E b \in FieldValue(reg.fields[1], pre) : b \in ret[1]

\* A field of a register with several fields was read while bits above it
\* were set.
C26_SeveralFields ==
    /\ Done("get_fields")
    /\ Len(reg.fields) > 1
    /\ BitsAbove(call.fields[1], pre)
    /\ FieldValue(call.fields[1], pre) # { }
    /\ ret[1] = FieldValue(call.fields[1], pre)

\* The bits of the write_clear and self_clearing fields of the register:
\* storing a 1 there clears a pending flag or triggers an event.
TriggerBits ==
    UNION { FieldBits(reg.fields[i]) :
              i \in { j \in 1 .. Len(reg.fields) :
                        reg.fields[j].type \in { "write_clear", "self_clearing" } } }

\* The bits the call names: the bits of its fields and its bit positions.
NamedBits == CombinedMask(call.fields) \cup PositionsMask(call.bits)

\* The call was carried out by a load followed by a store.
ReadModifyWrite ==
    /\ call.op \in { "set_fields", "set_bits", "clear_bits", "toggle_bits",
                     "clear_fields" }
    /\ call.status = "done"
    /\ Len(bus) = 2

\* C27: a read-modify-write operation aimed at other fields (set_fields,
\* non-atomic set_bits, clear_bits and toggle_bits, the read-modify-write
\* branch of clear_fields) never stores a 1 into a bit of a write_clear or
\* self_clearing field of the same register that the call did not name,
\* whatever those bits currently read as.
C27_NoStoreIntoUnnamedTriggerBits ==
    ReadModifyWrite => (bus[2].val \cap TriggerBits) \subseteq NamedBits

\* The write-1-to-clear hardware: what the field f holds after the call,
\* when every bit of f that had a 1 stored to it is cleared and the other
\* bits of f keep what they held.
AfterWriteOneToClear(f) ==
    { b \in FieldBits(f) \cap pre : \A i \in Stores : b \notin bus[i].val }

\* C28: under write-1-to-clear hardware semantics, clear_fields on a
\* write_clear field of width greater than 1 leaves every bit of that field
\* cleared, whatever the field held before.
C28_WriteClearFieldCleared ==
    Done("clear_fields") =>
        \A i \in 1 .. Len(call.fields) :
            (call.fields[i].type = "write_clear" /\ call.fields[i].len > 1)
                => AfterWriteOneToClear(call.fields[i]) = { }

\* The register of the call with the atomic-support flag inverted and
\* everything else the same.
TwinRegister == [ reg EXCEPT !.atomic = ~ reg.atomic ]

\* The word the twin register holds after the same call from the same
\* word, a store to an alias applying its mask to the register.
TwinResult ==
    HwRun(TwinRegister, pre,
          CASE call.op = "set_bits" -> set_bits_impl(TwinRegister, pre, call.bits)
            [] call.op = "clear_bits" -> clear_bits_impl(TwinRegister, pre, call.bits)
            [] call.op = "toggle_bits" -> toggle_bits_impl(TwinRegister, pre, call.bits)
            [] call.op = "clear_fields" -> clear_fields(TwinRegister, pre, call.fields))

\* A completed set_bits, clear_bits, toggle_bits, or clear_fields of
\* read_write fields, on a read-write register.
BitOrClearOperation ==
    /\ reg.kind = "read_write"
    /\ call.status = "done"
    /\ \/ call.op \in { "set_bits", "clear_bits", "toggle_bits" }
       \/ /\ call.op = "clear_fields"
          /\ \A i \in 1 .. Len(call.fields) : call.fields[i].type = "read_write"

\* The register word the operation is to leave, from the word before it.
Effect ==
    CASE call.op = "set_bits" -> pre \cup PositionsMask(call.bits)
      [] call.op = "clear_bits" -> pre \ PositionsMask(call.bits)
      [] call.op = "toggle_bits" ->
            (pre \ PositionsMask(call.bits)) \cup (PositionsMask(call.bits) \ pre)
      [] call.op = "clear_fields" -> pre \ CombinedMask(call.fields)

\* C29: without interference, a store of m to the SET, CLEAR or XOR alias
\* being register | m, register & ~m or register ^ m, the operations
\* set_bits, clear_bits, toggle_bits and clear_fields of read_write fields
\* leave the same final register word on a register with atomic support as
\* on an otherwise identical register without it, for every starting word
\* and every mask.
C29_AtomicEqualsReadModifyWrite ==
    BitOrClearOperation =>
        /\ mem = TwinResult
        /\ mem = Effect

\* clear_bits through the CLEAR alias cleared one set bit of two named; the
\* twin register reaches the same word by a load and a store.
C29_Witness ==
    /\ BitOrClearOperation
    /\ call.op = "clear_bits"
    /\ reg.atomic
    /\ Len(call.bits) = 2
    /\ call.bits[1] \in pre
    /\ call.bits[2] \notin pre
    /\ bus = << [ kind |-> "store", addr |-> Plain + atomic_clear_offset,
                  val |-> PositionsMask(call.bits) ] >>
    /\ mem = pre \ { call.bits[1] }
    /\ mem = TwinResult

\* clear_fields of a read_write field by read-modify-write; the twin
\* register reaches the same word through the CLEAR alias.
C29_ClearFieldsReadModifyWrite ==
    /\ BitOrClearOperation
    /\ call.op = "clear_fields"
    /\ ~ reg.atomic
    /\ Len(bus) = 2
    /\ mem # pre
    /\ mem = TwinResult

\* A completed bit test of a single position.
SinglePositionTest ==
    /\ call.op \in { "is_any_bit_set", "are_all_bits_set" }
    /\ call.status = "done"
    /\ Len(call.bits) = 1

\* C30: for a single bit position p in 0..31 and every register word, the
\* single-position shortcut of the bit tests, (read >> p) & 1, returns the
\* same boolean as the general evaluators it replaces, (read & (1 << p)) # 0
\* for is_any_bit_set and (read & (1 << p)) = (1 << p) for are_all_bits_set,
\* and the test issues exactly one load.
C30_ShortcutEqualsEvaluators ==
    SinglePositionTest =>
        LET p == call.bits[1]
            mask == get_bit_positions_bitmask(call.bits)
        IN  /\ OneLoad
            /\ bit_check_shortcut(pre, call.bits) <=> is_any_bit_set_result(pre, mask)
            /\ bit_check_shortcut(pre, call.bits) <=> are_all_bits_set_result(pre, mask)
            /\ flag <=> bit_check_shortcut(pre, call.bits)
            /\ flag <=> p \in pre

\* A position other than 0 was tested and found set in a word whose bit 0
\* is clear.
C30_Witness ==
    /\ SinglePositionTest
    /\ call.bits[1] > 0
    /\ call.bits[1] \in pre
    /\ 0 \notin pre
    /\ OneLoad
    /\ flag

\* A position was tested and found clear in a word whose bit 0 is set.
C30_ClearBit ==
    /\ SinglePositionTest
    /\ call.op = "are_all_bits_set"
    /\ call.bits[1] \notin pre
    /\ 0 \in pre
    /\ ~ flag

====
